---- MODULE Spec2Model ----
(***************************************************************************)
(* pswtf (src-tauri/src/main.rs): the kill commands (kill_process,         *)
(* kill_matching_processes) with the hierarchy resolver and the            *)
(* termination engine, and the port listing's deduplication and sort.      *)
(*                                                                         *)
(* Strings are tuples of one-character strings.  Option<T> is a tuple:     *)
(* None is << >>, Some(x) is <<x>>.                                        *)
(***************************************************************************)
EXTENDS Integers, Sequences, FiniteSets, TLC

VARIABLES
    pc,             \* position of the one command in flight
    op,             \* the command in flight
    arg,            \* its first argument: `pid` or `query`
    scanned,        \* collect_processes() has been called by the command in flight
    processes,      \* kill_*: let processes = collect_processes()
    child_map,      \* kill_*: let child_map = build_child_map(&processes)
    include_children, \* include_children.unwrap_or(true)
    signal,         \* resolve_signal(force)
    matched_roots,  \* kill_matching_processes: matched_roots; kill_process: <<pid>>
    root_idx,       \* position of `for root_pid in &matched_roots`
    stack,          \* call stack of collect_descendants: frames [root_pid, i]
    targets,        \* kill_*: targets (the `out` of collect_descendants)
    pending,        \* perform_kill: what `for pid in targets` has not yet visited
    attempted,      \* perform_kill: attempted
    killed,         \* perform_kill: killed
    failed,         \* perform_kill: failed
    matched,        \* perform_kill: matched
    signals,        \* the kill(2) calls issued by the command in flight, in order
    parsed,         \* collect_ports: stdout.lines().filter_map(parse_lsof_line)
    result          \* what the command returned

vars == <<pc, op, arg, scanned, processes, child_map, include_children, signal,
          matched_roots, root_idx, stack, targets, pending, attempted, killed,
          failed, matched, signals, parsed, result>>

-----------------------------------------------------------------------------
(* Bounds of the model *)

\* largest PID the process table can hold
MaxPid == 4
\* how many negative PIDs an i32 `pid` field can take in the model
NegPids == 1
\* largest number of processes in one snapshot
MaxProcs == 3
\* largest number of lines of lsof that parse to a PortInfo
MaxLines == 2

PidDomain == (0 - NegPids)..MaxPid

-----------------------------------------------------------------------------
(* Option, strings *)

None == << >>
Some(x) == <<x>>
IsSome(o) == Len(o) = 1
Unwrap(o) == o[1]

\* Option::unwrap_or
unwrap_or(o, d) == IF IsSome(o) THEN Unwrap(o) ELSE d

Range(s) == {s[i] : i \in 1..Len(s)}

UpperCase == <<"A","B","C","D","E","F","G","H","I","J","K","L","M",
               "N","O","P","Q","R","S","T","U","V","W","X","Y","Z">>
LowerCase == <<"a","b","c","d","e","f","g","h","i","j","k","l","m",
               "n","o","p","q","r","s","t","u","v","w","x","y","z">>

IndexIn(c, s) == CHOOSE i \in 1..Len(s) : s[i] = c

\* str::to_ascii_lowercase
to_ascii_lowercase(s) ==
    [i \in 1..Len(s) |->
        IF s[i] \in Range(UpperCase) THEN LowerCase[IndexIn(s[i], UpperCase)] ELSE s[i]]

WhiteSpace == {" ", "\t", "\n", "\r"}

RECURSIVE trim_start(_)
trim_start(s) ==
    IF s # << >> /\ Head(s) \in WhiteSpace THEN trim_start(Tail(s)) ELSE s

RECURSIVE trim_end(_)
trim_end(s) ==
    IF s # << >> /\ s[Len(s)] \in WhiteSpace
    THEN trim_end(SubSeq(s, 1, Len(s) - 1)) ELSE s

\* str::trim
trim(s) == trim_end(trim_start(s))

\* str::contains(&str)
contains(hay, needle) ==
    \E i \in 1..(Len(hay) + 1) :
        /\ i + Len(needle) - 1 <= Len(hay)
        /\ SubSeq(hay, i, i + Len(needle) - 1) = needle

-----------------------------------------------------------------------------
(* The host's process table: what the OS can report for each PID.  The    *)
(* parent links and the set of live PIDs vary freely per snapshot; the     *)
(* other fields of a process are fixed per PID.                            *)

\* std::process::id() as i32
self_pid == 2

ImageNames == << <<"s","h">>, <<"V","i","m">>, <<"p","s","w","t","f">> >>
ImageCmds  == << <<"s","h"," ","-","c"," ","v","i","m">>,
                 <<"V","i","m"," ","-","R">>,
                 <<"p","s","w","t","f">> >>

\* ProcessInfo of the process with this pid and parent (process_to_info)
process_to_info(pid, parent) ==
    [pid |-> pid,
     parent_pid |-> parent,
     name |-> ImageNames[(pid % 3) + 1],
     cmd |-> ImageCmds[(pid % 3) + 1],
     cpu_percent |-> pid % 2,
     memory_bytes |-> (pid + NegPids) \div 3]

\* the comparator of processes.sort_by: TRUE when a sorts strictly before b
ProcessBefore(a, b) ==
    \/ b.cpu_percent < a.cpu_percent
    \/ /\ b.cpu_percent = a.cpu_percent
       /\ \/ b.memory_bytes < a.memory_bytes
          \/ /\ b.memory_bytes = a.memory_bytes
             /\ a.pid < b.pid

RECURSIVE SortProcesses(_)
SortProcesses(S) ==
    IF S = {} THEN << >>
    ELSE LET first == CHOOSE a \in S : \A b \in S \ {a} : ProcessBefore(a, b)
         IN <<first>> \o SortProcesses(S \ {first})

\* collect_processes() on a process table given as a function pid -> parent
collect_processes(table) ==
    SortProcesses({process_to_info(p, table[p]) : p \in DOMAIN table})

\* a parent link: none, or the PID of a process that is or was in the table
ParentOpts == {None} \cup {Some(p) : p \in 0..MaxPid}

\* the process tables the OS can present
Tables ==
    UNION {[S -> ParentOpts] : S \in {T \in SUBSET PidDomain : Cardinality(T) <= MaxProcs}}

-----------------------------------------------------------------------------
(* Hierarchy resolver *)

\* HashMap::get: the children recorded for a parent, << >> when it has no entry
Children(map, parent) == IF parent \in DOMAIN map THEN map[parent] ELSE << >>

\* child_map.insert(parent_pid, vec![process.pid]): a later child replaces
\* the earlier ones
build_child_map_overwrite(procs) ==
    LET parents == {Unwrap(procs[i].parent_pid) :
                        i \in {j \in 1..Len(procs) : IsSome(procs[j].parent_pid)}}
        last(par) ==
            LET at == {i \in 1..Len(procs) : procs[i].parent_pid = Some(par)}
            IN procs[CHOOSE i \in at : \A j \in at : j <= i].pid
    IN [par \in parents |-> <<last(par)>>]

build_child_map(procs) ==
    LET parents == {Unwrap(procs[i].parent_pid) :
                        i \in {j \in 1..Len(procs) : IsSome(procs[j].parent_pid)}}
        kids(par) ==
            LET IsChild(p) == p.parent_pid = Some(par)
                sel == SelectSeq(procs, IsChild)
            IN [i \in 1..Len(sel) |-> sel[i].pid]
    IN [par \in parents |-> kids(par)]

\* Vec::dedup: only runs of equal PIDs collapse
dedupe_adjacent(pids) ==
    LET Keep(i) == i = 1 \/ pids[i] # pids[i - 1]
        idx == {i \in 1..Len(pids) : Keep(i)}
        RECURSIVE pick(_, _)
        pick(i, acc) ==
            IF i > Len(pids) THEN acc
            ELSE pick(i + 1, IF i \in idx THEN Append(acc, pids[i]) ELSE acc)
    IN pick(1, << >>)

\* no deduplication at all
dedupe_none(pids) == pids

dedupe_pids(pids) ==
    LET RECURSIVE go(_, _, _)
        go(rest, seen, deduped) ==
            IF rest = << >> THEN deduped
            ELSE IF Head(rest) \in seen
                 THEN go(Tail(rest), seen, deduped)
                 ELSE go(Tail(rest), seen \cup {Head(rest)}, Append(deduped, Head(rest)))
    IN go(pids, {}, << >>)

resolve_signal(force) == IF unwrap_or(force, FALSE) THEN "SIGKILL" ELSE "SIGTERM"

\* one activation of collect_descendants: its root_pid and the position of
\* `for child_pid in children`
Frame(root_pid) == [root_pid |-> root_pid, i |-> 1]

\* A forest of at most MaxProcs processes nests collect_descendants at most
\* MaxProcs deep; a deeper nesting has some root_pid twice on the stack, and
\* as the call depends on (root_pid, child_map) alone it recurses until the
\* thread's stack is exhausted.
StackLimit == MaxProcs + 1

\* a collect_descendants that recurses without pushing
push_child_dropped(out, child_pid) == out

\* out.push(*child_pid)
push_child(out, child_pid) == Append(out, child_pid)

\* a command that puts the root ahead of its expansion
push_root_first(out, root_pid) == <<root_pid>> \o out

\* targets.push(pid) / targets.push(*root_pid)
push_root(out, root_pid) == Append(out, root_pid)

-----------------------------------------------------------------------------
(* Termination engine *)

\* a filter that lets PID 0 through
Filtered_zero_passes(pid) == pid < 0 \/ pid = self_pid

\* perform_kill: `if pid <= 0 || pid == self_pid { continue; }`
Filtered(pid) == pid <= 0 \/ pid = self_pid

\* what kill(2) can answer for a PID taken from an earlier snapshot: the
\* signal was delivered, or the process has exited since
KillOutcomes == {"Ok", "ESRCH"}

\* Ok(_) => killed.push(pid)
killed_push(list, pid, outcome) ==
    IF outcome = "Ok" THEN Append(list, pid) ELSE list

\* a perform_kill that records no failure
failed_push_lost(list, pid, outcome) == list

\* Err(error) => failed.push(KillError { pid, error: error.to_string() })
failed_push(list, pid, outcome) ==
    IF outcome # "Ok" THEN Append(list, [pid |-> pid, error |-> outcome]) ELSE list

\* a perform_kill that leaves the loop at the first failure
after_signal_abort(rest, outcome) == IF outcome = "Ok" THEN Tail(rest) ELSE << >>

\* perform_kill: what the loop has left to visit once kill(2) has answered
\* for the first of `rest`: the match has no early exit
after_signal(rest, outcome) == Tail(rest)

KillReport(m, a, k, f) == [matched |-> m, attempted |-> a, killed |-> k, failed |-> f]

Ok(v) == [tag |-> "Ok", value |-> v]
Err(e) == [tag |-> "Err", error |-> e]
\* an error message: its fixed text and the PID it is formatted with
Message(text, pid) == [text |-> text, pid |-> pid]
NoResult == [tag |-> "none"]

-----------------------------------------------------------------------------
(* Port listing *)

Digit == <<"0","1","2","3","4","5","6","7","8","9">>

\* the characters of the model's strings in ASCII order
AsciiOrder == <<" ", "\"", "(", ")", "*", "-", ":">> \o Digit \o UpperCase
                \o <<"\\">> \o LowerCase

\* Ord for str: TRUE when a < b
RECURSIVE StrLess(_, _)
StrLess(a, b) ==
    IF b = << >> THEN FALSE
    ELSE IF a = << >> THEN TRUE
    ELSE IF Head(a) = Head(b) THEN StrLess(Tail(a), Tail(b))
    ELSE IndexIn(Head(a), AsciiOrder) < IndexIn(Head(b), AsciiOrder)

RECURSIVE fmt_nat(_)
fmt_nat(n) ==
    IF n < 10 THEN <<Digit[n + 1]>> ELSE fmt_nat(n \div 10) \o <<Digit[(n % 10) + 1]>>

\* Display for u16 and i32
fmt_int(n) == IF n < 0 THEN <<"-">> \o fmt_nat(0 - n) ELSE fmt_nat(n)

RECURSIVE escape_debug(_)
escape_debug(str) ==
    IF str = << >> THEN << >>
    ELSE (IF Head(str) \in {"\"", "\\"} THEN <<"\\", Head(str)>> ELSE <<Head(str)>>)
         \o escape_debug(Tail(str))

\* Debug for Option<String>
fmt_debug(o) ==
    IF IsSome(o)
    THEN <<"S","o","m","e","(","\"">> \o escape_debug(Unwrap(o)) \o <<"\"",")">>
    ELSE <<"N","o","n","e">>

\* Option<i32>::unwrap_or_default
unwrap_or_default(o) == unwrap_or(o, 0)

\* collect_ports: the key of the retain closure,
\* format!("{}:{}:{}:{}:{:?}", protocol, local_address, port, pid.unwrap_or_default(), state)
port_key(entry) ==
    entry.protocol \o <<":">> \o entry.local_address \o <<":">>
        \o fmt_int(entry.port) \o <<":">> \o fmt_int(unwrap_or_default(entry.pid))
        \o <<":">> \o fmt_debug(entry.state)

\* collect_ports: ports.retain(|entry| seen.insert(key))
retain_unseen(ports) ==
    LET RECURSIVE go(_, _, _)
        go(rest, seen, kept) ==
            IF rest = << >> THEN kept
            ELSE IF port_key(Head(rest)) \in seen
                 THEN go(Tail(rest), seen, kept)
                 ELSE go(Tail(rest), seen \cup {port_key(Head(rest))},
                         Append(kept, Head(rest)))
    IN go(ports, {}, << >>)

\* the comparator of ports.sort_by: TRUE when a sorts strictly after b
PortAfter(a, b) ==
    \/ a.port > b.port
    \/ /\ a.port = b.port
       /\ \/ StrLess(b.protocol, a.protocol)
          \/ /\ a.protocol = b.protocol
             /\ unwrap_or_default(a.pid) > unwrap_or_default(b.pid)

\* slice::sort_by, a stable sort
RECURSIVE sort_ports(_)
sort_ports(ports) ==
    IF ports = << >> THEN << >>
    ELSE LET sorted == sort_ports(SubSeq(ports, 1, Len(ports) - 1))
             last == ports[Len(ports)]
             after == {i \in 1..Len(sorted) : PortAfter(sorted[i], last)}
             at == IF after = {} THEN Len(sorted) + 1
                   ELSE CHOOSE i \in after : \A j \in after : i <= j
         IN SubSeq(sorted, 1, at - 1) \o <<last>> \o SubSeq(sorted, at, Len(sorted))

\* collect_ports, given how lsof ended and what its lines parsed to
collect_ports(lsof, lines) ==
    IF lsof = "spawn_failed" THEN Err(Message("Failed to run lsof: {error}", None))
    ELSE IF lsof = "nonzero_exit"
    THEN Err(Message("lsof exited with status {:?}", None))
    ELSE Ok(sort_ports(retain_unseen(lines)))

LsofOutcomes == {"spawn_failed", "nonzero_exit", "success"}

\* the PortInfo records parse_lsof_line can produce
PortInfos ==
    [protocol : { <<"T","C","P">>, <<"U","D","P">> },
     local_address : { <<"*">>, <<":",":","1">> },
     port : {80, 8080},
     state : {None, Some(<<"L","I","S","T","E","N">>)},
     pid : {None, Some(0), Some(7)},
     process_name : {Some(<<"s","h">>), Some(<<"V","i","m">>)}]

ParsedLines == UNION {[1..n -> PortInfos] : n \in 0..MaxLines}

-----------------------------------------------------------------------------
(* Commands *)

OptBool == {None, Some(TRUE), Some(FALSE)}

\* the query strings a caller sends
Queries == { << >>, <<" ">>, <<"x">>, <<"s","h">>, <<" ","V","I","M"," ">>,
             <<"p","s","w">> }

Init ==
    /\ pc = "idle"
    /\ op = "none"
    /\ arg = None
    /\ scanned = FALSE
    /\ processes = << >>
    /\ child_map = << >>
    /\ include_children = TRUE
    /\ signal = "SIGTERM"
    /\ matched_roots = << >>
    /\ root_idx = 0
    /\ stack = << >>
    /\ targets = << >>
    /\ pending = << >>
    /\ attempted = 0
    /\ killed = << >>
    /\ failed = << >>
    /\ matched = 0
    /\ signals = << >>
    /\ parsed = << >>
    /\ result = NoResult

\* the command fails before perform_kill: return Err(message)
Fail(message) ==
    /\ pc' = "error"
    /\ result' = Err(message)
    /\ UNCHANGED <<child_map, include_children, signal, matched_roots, root_idx,
                   stack, targets, pending, attempted, killed, failed, matched,
                   signals, parsed>>

\* the loop over the roots starts: with children, the first root's expansion
\* is entered; without, every root is pushed and perform_kill is entered with
\* dedupe_pids(targets)
StartTargets(roots, with_children, m, sig) ==
    /\ matched_roots' = roots
    /\ include_children' = with_children
    /\ signal' = sig
    /\ matched' = m
    /\ attempted' = 0
    /\ killed' = << >>
    /\ failed' = << >>
    /\ signals' = << >>
    /\ result' = NoResult
    /\ UNCHANGED parsed
    /\ IF with_children
       THEN /\ pc' = "expand"
            /\ root_idx' = 1
            /\ stack' = <<Frame(roots[1])>>
            /\ targets' = << >>
            /\ pending' = << >>
       ELSE /\ pc' = "kill"
            /\ root_idx' = Len(roots)
            /\ stack' = << >>
            /\ targets' = roots
            /\ pending' = dedupe_pids(roots)

\* a kill_process that does not look the PID up
is_present_always(procs, pid) == TRUE

\* kill_process: processes.iter().any(|process| process.pid == pid)
is_present(procs, pid) == \E i \in 1..Len(procs) : procs[i].pid = pid

\* kill_process up to the first call of collect_descendants (or, without
\* children, up to perform_kill)
kill_process(pid, inc, force, table) ==
    /\ op' = "kill_process"
    /\ arg' = pid
    /\ IF pid <= 0
       THEN /\ UNCHANGED <<scanned, processes>>
            /\ Fail(Message("PID must be a positive integer", None))
       ELSE LET procs == collect_processes(table) IN
            /\ scanned' = TRUE
            /\ processes' = procs
            /\ IF ~ is_present(procs, pid)
               THEN Fail(Message("Process {pid} was not found", Some(pid)))
               ELSE /\ child_map' = build_child_map(procs)
                    /\ StartTargets(<<pid>>, unwrap_or(inc, TRUE), 1,
                                    resolve_signal(force))

\* the filter_map of kill_matching_processes
MatchedRoots(procs, normalized_query) ==
    LET Matches(process) ==
            \/ contains(to_ascii_lowercase(process.name), normalized_query)
            \/ contains(to_ascii_lowercase(process.cmd), normalized_query)
        sel == SelectSeq(procs, Matches)
    IN [i \in 1..Len(sel) |-> sel[i].pid]

\* kill_matching_processes up to the first call of collect_descendants (or,
\* without children, up to perform_kill)
kill_matching_processes(query, inc, force, table) ==
    /\ op' = "kill_matching_processes"
    /\ arg' = query
    /\ LET normalized_query == to_ascii_lowercase(trim(query)) IN
       IF normalized_query = << >>
       THEN /\ UNCHANGED <<scanned, processes>>
            /\ Fail(Message("Query cannot be empty", None))
       ELSE LET procs == collect_processes(table)
                roots == MatchedRoots(procs, normalized_query)
            IN /\ scanned' = TRUE
               /\ processes' = procs
               /\ child_map' = build_child_map(procs)
               /\ IF roots = << >>
                  THEN /\ pc' = "done"
                       /\ result' = Ok(KillReport(0, 0, << >>, << >>))
                       /\ UNCHANGED <<include_children, signal, matched_roots,
                                      root_idx, stack, targets, pending, attempted,
                                      killed, failed, matched, signals, parsed>>
                  ELSE StartTargets(roots, unwrap_or(inc, TRUE), Len(roots),
                                    resolve_signal(force))

KillProcess ==
    /\ pc = "idle"
    /\ \E pid \in PidDomain \cup {MaxPid + 1}, inc \in OptBool, force \in OptBool,
       table \in Tables :
        kill_process(pid, inc, force, table)

KillMatchingProcesses ==
    /\ pc = "idle"
    /\ \E query \in Queries, inc \in OptBool, force \in OptBool, table \in Tables :
        kill_matching_processes(query, inc, force, table)

ExpandUnchanged ==
    UNCHANGED <<op, arg, scanned, processes, child_map, include_children, signal,
                matched_roots, attempted, killed, failed, matched, signals, parsed, result>>

Top == stack[Len(stack)]

\* collect_descendants: `collect_descendants(*child_pid, child_map, out)`
Descend ==
    /\ pc = "expand"
    /\ Top.i <= Len(Children(child_map, Top.root_pid))
    /\ Len(stack) < StackLimit
    /\ stack' = Append(stack, Frame(Children(child_map, Top.root_pid)[Top.i]))
    /\ UNCHANGED <<pc, root_idx, targets, pending>>
    /\ ExpandUnchanged

\* collect_descendants recursing with no stack left: the process aborts
StackOverflow ==
    /\ pc = "expand"
    /\ Top.i <= Len(Children(child_map, Top.root_pid))
    /\ Len(stack) >= StackLimit
    /\ pc' = "overflow"
    /\ UNCHANGED <<stack, root_idx, targets, pending>>
    /\ ExpandUnchanged

\* collect_descendants returns to collect_descendants: `out.push(*child_pid)`
\* and the caller's loop moves on
ReturnToCaller ==
    /\ pc = "expand"
    /\ Top.i > Len(Children(child_map, Top.root_pid))
    /\ Len(stack) > 1
    /\ LET caller == stack[Len(stack) - 1]
           child_pid == Children(child_map, caller.root_pid)[caller.i]
       IN /\ targets' = push_child(targets, child_pid)
          /\ stack' = [SubSeq(stack, 1, Len(stack) - 1)
                          EXCEPT ![Len(stack) - 1].i = caller.i + 1]
    /\ UNCHANGED <<pc, root_idx, pending>>
    /\ ExpandUnchanged

\* collect_descendants returns to the command: the root is pushed, and the
\* next root is expanded or, after the last, perform_kill is entered with
\* dedupe_pids(targets)
ReturnToCommand ==
    /\ pc = "expand"
    /\ Top.i > Len(Children(child_map, Top.root_pid))
    /\ Len(stack) = 1
    /\ LET out == push_root(targets, matched_roots[root_idx]) IN
       /\ targets' = out
       /\ IF root_idx < Len(matched_roots)
          THEN /\ root_idx' = root_idx + 1
               /\ stack' = <<Frame(matched_roots[root_idx + 1])>>
               /\ UNCHANGED <<pc, pending>>
          ELSE /\ pc' = "kill"
               /\ stack' = << >>
               /\ pending' = dedupe_pids(out)
               /\ UNCHANGED root_idx
    /\ ExpandUnchanged

KillUnchanged ==
    UNCHANGED <<op, arg, scanned, processes, child_map, include_children, signal,
                matched_roots, root_idx, stack, targets, matched, parsed>>

\* perform_kill: one turn of `for pid in targets` that ends in `continue`
KillSkip ==
    /\ pc = "kill"
    /\ pending # << >>
    /\ Filtered(Head(pending))
    /\ pending' = Tail(pending)
    /\ UNCHANGED <<pc, attempted, killed, failed, signals, result>>
    /\ KillUnchanged

\* perform_kill: one turn of `for pid in targets` that calls kill(2)
KillSignal ==
    /\ pc = "kill"
    /\ pending # << >>
    /\ ~ Filtered(Head(pending))
    /\ \E outcome \in KillOutcomes :
        /\ attempted' = attempted + 1
        /\ signals' = Append(signals, [pid |-> Head(pending), outcome |-> outcome])
        /\ killed' = killed_push(killed, Head(pending), outcome)
        /\ failed' = failed_push(failed, Head(pending), outcome)
        /\ pending' = after_signal(pending, outcome)
    /\ UNCHANGED <<pc, result>>
    /\ KillUnchanged

\* perform_kill returns the report
KillReturn ==
    /\ pc = "kill"
    /\ pending = << >>
    /\ pc' = "done"
    /\ result' = Ok(KillReport(matched, attempted, killed, failed))
    /\ UNCHANGED <<pending, attempted, killed, failed, signals>>
    /\ KillUnchanged

\* list_open_ports
list_open_ports(lsof, lines) ==
    /\ op' = "list_open_ports"
    /\ arg' = None
    /\ parsed' = IF lsof = "success" THEN lines ELSE << >>
    /\ result' = collect_ports(lsof, lines)
    /\ pc' = IF lsof = "success" THEN "done" ELSE "error"
    /\ UNCHANGED <<scanned, processes, child_map, include_children, signal,
                   matched_roots, root_idx, stack, targets, pending, attempted,
                   killed, failed, matched, signals>>

ListOpenPorts ==
    /\ pc = "idle"
    /\ \E lsof \in LsofOutcomes, lines \in ParsedLines : list_open_ports(lsof, lines)

\* the response is sent; nothing of the command is kept
Respond ==
    /\ pc \in {"done", "error"}
    /\ pc' = "idle"
    /\ op' = "none"
    /\ arg' = None
    /\ scanned' = FALSE
    /\ processes' = << >>
    /\ child_map' = << >>
    /\ include_children' = TRUE
    /\ signal' = "SIGTERM"
    /\ matched_roots' = << >>
    /\ root_idx' = 0
    /\ stack' = << >>
    /\ targets' = << >>
    /\ pending' = << >>
    /\ attempted' = 0
    /\ killed' = << >>
    /\ failed' = << >>
    /\ matched' = 0
    /\ signals' = << >>
    /\ parsed' = << >>
    /\ result' = NoResult

Next ==
    \/ KillProcess
    \/ KillMatchingProcesses
    \/ ListOpenPorts
    \/ Descend
    \/ StackOverflow
    \/ ReturnToCaller
    \/ ReturnToCommand
    \/ KillSkip
    \/ KillSignal
    \/ KillReturn
    \/ Respond

Spec == Init /\ [][Next]_vars

\* A command, once invoked, is run by its thread to the end: every step of
\* the command in flight is taken.  Invocations themselves are up to the caller.
Step ==
    \/ Descend
    \/ StackOverflow
    \/ ReturnToCaller
    \/ ReturnToCommand
    \/ KillSkip
    \/ KillSignal
    \/ KillReturn
    \/ Respond

FairSpec == Spec /\ WF_vars(Step)

-----------------------------------------------------------------------------
(* Vocabulary of the properties: the snapshot's parent relation, stated on *)
(* `processes` alone.                                                      *)

KillOps == {"kill_process", "kill_matching_processes"}

\* a kill command has returned a KillReport
Reported == pc = "done" /\ op \in KillOps

SnapshotPids == {processes[i].pid : i \in 1..Len(processes)}

\* the processes of the snapshot whose parent link names a member of S
ChildrenOf(S) ==
    {processes[i].pid : i \in {j \in 1..Len(processes) :
        /\ IsSome(processes[j].parent_pid)
        /\ Unwrap(processes[j].parent_pid) \in S}}

RECURSIVE Closure(_, _)
Closure(D, n) == IF n = 0 THEN D ELSE Closure(D \cup ChildrenOf(D), n - 1)

\* the processes reachable from a member of S by following parent links
Descendants(S) == Closure(ChildrenOf(S), Len(processes))

\* no process is its own transitive descendant
IsForest == \A p \in SnapshotPids : p \notin Descendants({p})

\* a PID the termination engine may signal
Signalable(p) == p > 0 /\ p # self_pid

Occurrences(seq, x) == Cardinality({i \in 1..Len(seq) : seq[i] = x})

Pids(seq) == {seq[i].pid : i \in 1..Len(seq)}
PidSeq(seq) == [i \in 1..Len(seq) |-> seq[i].pid]

Roots == Range(matched_roots)

-----------------------------------------------------------------------------
\* C1: every KillReport, the zero-match report included, has
\* attempted = len(killed) + len(failed).
C1_AttemptedIsKilledPlusFailed ==
    Reported =>
        result.value.attempted = Len(result.value.killed) + Len(result.value.failed)

\* a report with successes and failures
C1_Witness ==
    /\ Reported
    /\ Len(result.value.killed) >= 1
    /\ Len(result.value.failed) >= 2

\* C2: no signal is ever issued to the host's own PID or to a PID <= 0; such
\* PIDs are in neither killed nor failed and are not counted in attempted.
C2_NeverSelfNorNonPositive ==
    /\ \A i \in 1..Len(signals) : signals[i].pid > 0 /\ signals[i].pid # self_pid
    /\ Reported =>
        /\ \A p \in Range(result.value.killed) \cup Pids(result.value.failed) :
                p > 0 /\ p # self_pid
        /\ result.value.attempted =
                Cardinality({p \in Range(targets) : p > 0 /\ p # self_pid})

\* the host matches the query, a PID <= 0 is a target too, and a signal went out
C2_Witness ==
    /\ Reported
    /\ op = "kill_matching_processes"
    /\ self_pid \in Roots
    /\ \E p \in Range(targets) : p <= 0
    /\ signals # << >>

\* C3: within one command every PID is signaled at most once; a target that
\* entered the list by two paths is in killed and failed together exactly once.
C3_SignaledAtMostOnce ==
    /\ \A i, j \in 1..Len(signals) : signals[i].pid = signals[j].pid => i = j
    /\ Reported =>
        \A p \in Range(targets) :
            Signalable(p) =>
                Occurrences(result.value.killed, p)
                    + Occurrences(PidSeq(result.value.failed), p) = 1

\* a signalable matched root that is also a descendant of another matched root
C3_Witness ==
    /\ Reported
    /\ \E p \in Roots \cap Descendants(Roots) :
        /\ Signalable(p)
        /\ Occurrences(targets, p) >= 2

\* C4: in a forest, with children included, a process is never signaled
\* after one of its ancestors.
C4_DescendantsBeforeAncestors ==
    (op \in KillOps /\ include_children /\ IsForest) =>
        \A i, j \in 1..Len(signals) :
            signals[j].pid \in Descendants({signals[i].pid}) => j < i

\* nested matched roots, duplicates removed, a chain of three signaled
C4_Witness ==
    /\ Reported
    /\ include_children
    /\ IsForest
    /\ Len(targets) > Cardinality(Range(targets))
    /\ Len(signals) >= 3
    /\ signals[1].pid \in Descendants({signals[2].pid})
    /\ signals[2].pid \in Descendants({signals[3].pid})
    /\ {signals[2].pid, signals[3].pid} \subseteq Roots

\* C5: kill_process with a PID <= 0 fails before the process table is read,
\* and with a PID absent from the snapshot fails with not-found; in both cases
\* nothing is expanded and no signal is issued.
C5_InvalidPidNoSignal ==
    op = "kill_process" =>
        /\ arg <= 0 =>
            /\ pc = "error"
            /\ result = Err(Message("PID must be a positive integer", None))
            /\ ~ scanned /\ processes = << >>
            /\ stack = << >> /\ targets = << >> /\ signals = << >>
        /\ (arg > 0 /\ arg \notin SnapshotPids) =>
            /\ pc = "error"
            /\ result = Err(Message("Process {pid} was not found", Some(arg)))
            /\ stack = << >> /\ targets = << >> /\ signals = << >>

\* not found, though the snapshot holds a signalable child of the PID
C5_Witness ==
    /\ op = "kill_process"
    /\ pc = "error"
    /\ scanned
    /\ arg \notin SnapshotPids
    /\ \E p \in ChildrenOf({arg}) : Signalable(p)

\* C6: a failed signal never aborts the batch: every target that passes the
\* filter is signaled exactly once whatever the earlier outcomes, each failure
\* is in failed with its PID, and the report is returned.
C6_FailureDoesNotAbort ==
    /\ (op \in KillOps /\ pc \in {"kill", "done"}) =>
        Pids(signals) \cup {p \in Range(pending) : Signalable(p)}
            = {p \in Range(targets) : Signalable(p)}
    /\ Reported =>
        /\ result.tag = "Ok"
        /\ \A p \in Range(targets) :
            Signalable(p) => Occurrences(PidSeq(signals), p) = 1
        /\ \A i \in 1..Len(signals) :
            signals[i].outcome # "Ok" =>
                \E j \in 1..Len(result.value.failed) :
                    result.value.failed[j] =
                        [pid |-> signals[i].pid, error |-> signals[i].outcome]

\* the first target had exited, the ones after it were still signaled
C6_Witness ==
    /\ Reported
    /\ Len(signals) >= 3
    /\ signals[1].outcome = "ESRCH"
    /\ signals[2].outcome = "Ok"
    /\ signals[3].outcome = "ESRCH"

\* C7: attempted <= matched + the number of distinct processes of the
\* snapshot that are transitive descendants of the matched roots.
C7_AttemptedBound ==
    Reported =>
        result.value.attempted
            <= result.value.matched + Cardinality(Descendants(Roots))

\* several matched roots with overlapping subtrees, the bound met
C7_Witness ==
    /\ Reported
    /\ Len(matched_roots) >= 2
    /\ Roots \cap Descendants(Roots) # {}
    /\ Len(targets) > Cardinality(Range(targets))
    /\ result.value.attempted >= 2

\* C9: in a forest, with children included, the PIDs signaled are exactly the
\* matched roots and their transitive descendants less the host's PID and the
\* PIDs <= 0; with children excluded, exactly the matched roots less those.
C9_SignaledSet ==
    Reported =>
        /\ (include_children /\ IsForest) =>
            Pids(signals) = {p \in Roots \cup Descendants(Roots) : Signalable(p)}
        /\ ~ include_children =>
            Pids(signals) = {p \in Roots : Signalable(p)}

\* a filtered process between the root and a signaled grandchild
C9_Witness ==
    /\ Reported
    /\ include_children
    /\ IsForest
    /\ Len(matched_roots) = 1
    /\ \E q \in ChildrenOf(Roots) :
        /\ ~ Signalable(q)
        /\ \E p \in ChildrenOf({q}) : p \in Pids(signals)
    /\ Roots \subseteq Pids(signals)

\* no cycle of parent links can be reached from a matched root
AcyclicBelowRoots ==
    \A p \in Roots \cup Descendants(Roots) : p \notin Descendants({p})

\* the expansion ran to its end and emitted each descendant of each root once
ExpansionComplete ==
    /\ pc # "overflow"
    /\ Len(stack) <= Len(processes)
    /\ (op \in KillOps /\ include_children /\ pc \in {"kill", "done"}
            /\ matched_roots # << >>) =>
        \A p \in SnapshotPids :
            Occurrences(targets, p) =
                Cardinality({i \in 1..Len(matched_roots) :
                                p \in Descendants({matched_roots[i]})})
                + Occurrences(matched_roots, p)

\* C10 as stated: for any snapshot, collect_descendants terminates and emits
\* each descendant of the root exactly once.
C10_AnySnapshotTerminates == ExpansionComplete

\* where no cycle can be reached from a matched root the expansion is
\* complete, and a root with no entry in the child index expands to nothing
AcyclicExpansion ==
    (op \in KillOps /\ AcyclicBelowRoots) =>
        /\ ExpansionComplete
        /\ (Reported /\ include_children /\ Len(matched_roots) = 1
                /\ matched_roots[1] \notin DOMAIN child_map) =>
            targets = matched_roots

\* C10: for a snapshot in which no cycle of parent links can be reached from a
\* matched root, collect_descendants terminates and emits each descendant of
\* the root exactly once, and the kill command eventually returns a report or
\* an error; a PID with no entry in the child index yields an empty expansion.
C10_AcyclicTerminates ==
    /\ []AcyclicExpansion
    /\ (op \in KillOps /\ AcyclicBelowRoots) ~> (pc \in {"done", "error"})

\* a root expanded two levels deep, the command returned
C10_Witness ==
    /\ Reported
    /\ include_children
    /\ AcyclicBelowRoots
    /\ Len(targets) >= 3
    /\ \E p \in Range(targets) : p \in Descendants(Descendants(Roots))

\* the uniqueness key of a PortRecord, an absent pid being no pid at all
UniquenessKey(entry) ==
    <<entry.protocol, entry.local_address, entry.port, entry.pid, entry.state>>

\* C8: the port list holds exactly one record per distinct uniqueness key
\* (protocol, localAddress, port, pid, state) of the parsed lines, an absent
\* pid being distinct from every present pid.
C8_OneRecordPerKey ==
    (pc = "done" /\ op = "list_open_ports") =>
        /\ {UniquenessKey(result.value[i]) : i \in 1..Len(result.value)}
                = {UniquenessKey(parsed[i]) : i \in 1..Len(parsed)}
        /\ \A i, j \in 1..Len(result.value) :
                UniquenessKey(result.value[i]) = UniquenessKey(result.value[j])
                    => i = j

====
